---- MODULE Spec2Model ----
(***************************************************************************)
(* Model of the blog backend (src/server.js, src/Schema/User.js).          *)
(*                                                                         *)
(* Every route handler is an async function: it runs synchronously up to   *)
(* its next `await`, and other handlers run in between.  A request in      *)
(* flight is a record holding its route, its body, its position (pc) and   *)
(* its locals; `inflight` is the bag of these records.  One action models  *)
(* one synchronous segment of a handler together with the directory        *)
(* operation whose result resumes it.                                      *)
(*                                                                         *)
(* Strings are sequences of one-character strings, so that length, split,  *)
(* lowercasing and the regular expressions are computed as the code does.  *)
(***************************************************************************)
EXTENDS Integers, Sequences, FiniteSets, Bags, TLC

VARIABLES
    cached,     \* server.js:13-14  { conn, promise }
    connects,   \* number of mongoose.connect calls made so far (ghost)
    inflight,   \* bag of requests whose handler has not answered yet
    users,      \* the users collection
    blogs,      \* the blogs collection, in insertion order
    clock,      \* the store's wall clock (source of publishedAt)
    tokens,     \* number of nanoid() tokens drawn for blog ids
    signedUp,   \* the signups answered 201: email, password and answer (ghost)
    out         \* the response sent by the last step (NoOut if none) and its request

vars == <<cached, connects, inflight, users, blogs, clock, tokens, signedUp, out>>

----------------------------------------------------------------------------
(* Bounds of the model *)

\* requests that may be in flight at the same time
MaxInFlight == 2

\* blogs the collection may hold
MaxBlogs == 7

\* largest value of the clock
MaxClock == 1

----------------------------------------------------------------------------
(* Characters and strings *)

Lowers == <<"a","b","c","d","e","f","g","h","i","j","k","l","m",
            "n","o","p","q","r","s","t","u","v","w","x","y","z">>
Uppers == <<"A","B","C","D","E","F","G","H","I","J","K","L","M",
            "N","O","P","Q","R","S","T","U","V","W","X","Y","Z">>
Digits == {"0","1","2","3","4","5","6","7","8","9"}

Range(s) == {s[i] : i \in DOMAIN s}

LowerSet == Range(Lowers)
UpperSet == Range(Uppers)

IsLower(c) == c \in LowerSet
IsUpper(c) == c \in UpperSet
IsDigit(c) == c \in Digits
\* the regular expression class \w
IsWord(c) == IsLower(c) \/ IsUpper(c) \/ IsDigit(c) \/ c = "_"

LowerOf == [c \in UpperSet |-> Lowers[CHOOSE i \in DOMAIN Uppers : Uppers[i] = c]]

LowerChar(c) == IF IsUpper(c) THEN LowerOf[c] ELSE c

\* String.prototype.toLowerCase, also the schema option `lowercase: true`
toLowerCase(s) == [i \in DOMAIN s |-> LowerChar(s[i])]

\* \w+([\.-]?\w+)*
WordRuns(s) ==
    /\ Len(s) >= 1
    /\ IsWord(s[1]) /\ IsWord(s[Len(s)])
    /\ \A i \in DOMAIN s : IsWord(s[i]) \/ s[i] \in {".", "-"}
    /\ \A i \in 1..(Len(s) - 1) : IsWord(s[i]) \/ IsWord(s[i + 1])

\* (\.\w{2,3})+
RECURSIVE TldGroups(_)
TldGroups(s) ==
    /\ Len(s) >= 3
    /\ s[1] = "." /\ IsWord(s[2]) /\ IsWord(s[3])
    /\ \/ Len(s) = 3
       \/ TldGroups(SubSeq(s, 4, Len(s)))
       \/ /\ Len(s) >= 4 /\ IsWord(s[4])
          /\ (Len(s) = 4 \/ TldGroups(SubSeq(s, 5, Len(s))))

\* emailRegex.test(email)
emailRegex(email) ==
    \E a \in DOMAIN email :
        /\ email[a] = "@"
        /\ WordRuns(SubSeq(email, 1, a - 1))
        /\ \E k \in (a + 1)..Len(email) :
              /\ WordRuns(SubSeq(email, a + 1, k))
              /\ TldGroups(SubSeq(email, k + 1, Len(email)))

PasswordMinLen == 6
PasswordMaxLen == 20

\* passwordRegex.test(password)
passwordRegex(password) ==
    /\ \E i \in DOMAIN password : IsDigit(password[i])
    /\ \E i \in DOMAIN password : IsLower(password[i])
    /\ \E i \in DOMAIN password : IsUpper(password[i])
    /\ Len(password) >= PasswordMinLen
    /\ Len(password) <= PasswordMaxLen

\* email.split('@')[0]
SplitAtFirst(email) ==
    IF \E i \in DOMAIN email : email[i] = "@"
    THEN LET a == CHOOSE i \in DOMAIN email :
                     /\ email[i] = "@"
                     /\ \A j \in 1..(i - 1) : email[j] # "@"
         IN  SubSeq(email, 1, a - 1)
    ELSE email

----------------------------------------------------------------------------
(* Collaborators: bcryptjs, nanoid, the profile image default *)

BcryptCost == 10

\* bcrypt.hash(password, 10): a one-way digest, modelled as a free
\* constructor over (cost, salt, password)
bcryptHash(password, salt) ==
    [alg |-> "bcrypt", cost |-> BcryptCost, salt |-> salt, digest |-> <<salt, password>>]

\* bcrypt.compare(password, hash)
bcryptCompare(password, hash) == hash.digest = <<hash.salt, password>>

Salts == {"s1"}

SuffixLen == 5

\* values nanoid() may return, cut to their first 5 characters
NanoidPrefixes ==
    { SubSeq(t, 1, SuffixLen) : t \in { <<"x","7","_","Q","k","2","m">>,
                                         <<"Z","z","9","-","a","V","w">> } }

\* the default of personal_info.profile_img: one of the name x collection urls
ProfileImgs == {"notionists-neutral/Garfield", "fun-emoji/Kiki"}

----------------------------------------------------------------------------
(* The users collection (src/Schema/User.js) *)

FullnameMinLen == 3
UsernameMinLen == 3

\* new User({ personal_info: {...} }): setters and defaults applied
NewUser(fullname, email, hashedPassword, username, img) ==
    [fullname    |-> toLowerCase(fullname),
     email       |-> toLowerCase(email),
     password    |-> hashedPassword,
     username    |-> username,
     profile_img |-> img]

\* document validation run by save()
UserValid(doc) ==
    /\ Len(doc.fullname) >= FullnameMinLen
    /\ Len(doc.email) >= 1
    /\ Len(doc.username) >= UsernameMinLen

\* UserDuplicate with the index on username left out
UserDuplicateEmailOnly(coll, doc) ==
    \E u \in coll : u.email = doc.email

\* the two unique indexes
UserDuplicate(coll, doc) ==
    \E u \in coll : u.email = doc.email \/ u.username = doc.username

\* outcome of newUser.save()
UserSave(coll, doc) ==
    IF ~UserValid(doc) THEN "ValidationError"
    ELSE IF UserDuplicate(coll, doc) THEN "DuplicateKey"
    ELSE "saved"

\* User.findOne({ 'personal_info.email': email }): the filter is cast
\* through the schema, so it is lowercased like the stored field
UserFindOne(coll, email) == {u \in coll : u.email = toLowerCase(email)}

\* User.exists({ 'personal_info.username': username })
UserExists(coll, username) == \E u \in coll : u.username = username

formatUser(user) ==
    [profile_img |-> user.profile_img,
     username    |-> user.username,
     fullname    |-> user.fullname]

\* generateUsername cutting the token one character short
generateUsernameShortSuffix(email, exists, token) ==
    IF exists THEN SplitAtFirst(email) \o SubSeq(token, 1, SuffixLen - 1)
    ELSE SplitAtFirst(email)

\* generateUsername(email), given the answer of its one existence query
generateUsername(email, exists, token) ==
    IF exists THEN SplitAtFirst(email) \o token ELSE SplitAtFirst(email)

----------------------------------------------------------------------------
(* The blogs collection.  src/Schema/blog.js is not part of the sources:   *)
(* the document shape and save() follow the specification's data model.    *)

\* a nanoid() token: the n-th token drawn, never drawn before
Numerals == <<"0","1","2","3","4","5","6","7","8","9">>
NanoidToken(n) == <<"~", Numerals[(n \div 10) + 1], Numerals[(n % 10) + 1]>>

\* new Blog({...}): publishedAt is the creation time
NewBlog(title, des, banner, content, tags, blog_id, draft, now) ==
    [title       |-> title,
     des         |-> des,
     banner      |-> banner,
     content     |-> content,
     tags        |-> tags,
     author      |-> "null",
     blog_id     |-> blog_id,
     draft       |-> draft,
     activity    |-> [total_likes |-> 0, total_comments |-> 0, total_reads |-> 0],
     publishedAt |-> now]

\* outcome of blog.save(): blog_id is unique, a null author is accepted
BlogSave(coll, doc) ==
    IF \E i \in DOMAIN coll : coll[i].blog_id = doc.blog_id
    THEN "DuplicateKey"
    ELSE "saved"

----------------------------------------------------------------------------
(* Requests and responses *)

B(r) == SetToBag({r})

InFlight == BagToSet(inflight)

NoOut == [request |-> [route |-> "none", pc |-> "none"], status |-> 0, json |-> [none |-> TRUE]]

Err(msg) == [error |-> msg]

\* res.status(status).json(json): the handler of r answers and ends; `rest`
\* is the bag of the other requests in flight
Finish(r, rest, status, json) ==
    /\ inflight' = rest
    /\ out' = [request |-> r, status |-> status, json |-> json]

\* the handler of r suspends at its next await, as r2; nothing is sent
Await(rest, r2) ==
    /\ inflight' = rest (+) B(r2)
    /\ out' = NoOut

ErrorOf(route) ==
    CASE route = "upload" -> "Failed to generate upload URL"
      [] route = "signup" -> "Internal server error"
      [] route = "signin" -> "Internal server error"
      [] route = "latest" -> "Failed to fetch blogs"
      [] route = "create" -> "Failed to create blog"

----------------------------------------------------------------------------
(* connectToDatabase (server.js:16-29) *)

\* connectToDatabase looking at cached.conn only
connectToDatabaseNoPromiseCheck ==
    IF cached.conn = "null"
    THEN /\ cached' = [cached EXCEPT !.promise = "pending"]
         /\ connects' = connects + 1
    ELSE UNCHANGED <<cached, connects>>

\* connectToDatabase connecting again once the promise is rejected
connectToDatabaseRetry ==
    IF cached.conn = "null" /\ cached.promise \in {"null", "rejected"}
    THEN /\ cached' = [cached EXCEPT !.promise = "pending"]
         /\ connects' = connects + 1
    ELSE UNCHANGED <<cached, connects>>

\* the synchronous part, up to `await cached.promise`
connectToDatabase ==
    IF cached.conn = "null" /\ cached.promise = "null"
    THEN /\ cached' = [cached EXCEPT !.promise = "pending"]
         /\ connects' = connects + 1
    ELSE UNCHANGED <<cached, connects>>

\* mongoose.connect succeeds
ConnectResolve ==
    /\ cached.promise = "pending"
    /\ cached' = [cached EXCEPT !.promise = "resolved"]
    /\ out' = NoOut
    /\ UNCHANGED <<connects, inflight, users, blogs, clock, tokens, signedUp>>

\* mongoose.connect fails
ConnectReject ==
    /\ cached.promise = "pending"
    /\ cached' = [cached EXCEPT !.promise = "rejected"]
    /\ out' = NoOut
    /\ UNCHANGED <<connects, inflight, users, blogs, clock, tokens, signedUp>>

\* the await in connectToDatabase throws: the handler's catch answers 500
ConnectFailed(r) ==
    /\ r.pc = "awaitConn"
    /\ cached.conn = "null" /\ cached.promise = "rejected"
    /\ Finish(r, inflight (-) B(r), 500, Err(ErrorOf(r.route)))
    /\ UNCHANGED <<cached, connects, users, blogs, clock, tokens, signedUp>>

----------------------------------------------------------------------------
(* The first segment of each handler after `await connectToDatabase(...)`,  *)
(* up to the handler's next await                                           *)

\* server.js:76
UploadStart(r, rest) ==
    /\ Await(rest, [r EXCEPT !.pc = "sign"])
    /\ UNCHANGED <<users, blogs, clock, tokens, signedUp>>

DesMaxLen == 200
TagsMaxLen == 10

\* x?.length, 0 standing for undefined
LengthOf(body, field) == IF field \in DOMAIN body THEN Len(body[field]) ELSE 0

\* content?.blocks?.length
BlocksOf(body) ==
    IF "content" \in DOMAIN body /\ "blocks" \in DOMAIN body.content
    THEN Len(body.content.blocks) ELSE 0

\* CreateCheck refusing the tenth tag
CreateCheckTagsOffByOne(body) ==
    IF LengthOf(body, "title") = 0 THEN "Title required"
    ELSE IF LengthOf(body, "des") = 0 \/ LengthOf(body, "des") > DesMaxLen
        THEN "Description max 200 chars"
    ELSE IF LengthOf(body, "banner") = 0 THEN "Banner required"
    ELSE IF BlocksOf(body) = 0 THEN "Content required"
    ELSE IF LengthOf(body, "tags") = 0 \/ LengthOf(body, "tags") >= TagsMaxLen
        THEN "Tags required (max 10)"
    ELSE "ok"

\* server.js:154-158
CreateCheck(body) ==
    IF LengthOf(body, "title") = 0 THEN "Title required"
    ELSE IF LengthOf(body, "des") = 0 \/ LengthOf(body, "des") > DesMaxLen
        THEN "Description max 200 chars"
    ELSE IF LengthOf(body, "banner") = 0 THEN "Banner required"
    ELSE IF BlocksOf(body) = 0 THEN "Content required"
    ELSE IF LengthOf(body, "tags") = 0 \/ LengthOf(body, "tags") > TagsMaxLen
        THEN "Tags required (max 10)"
    ELSE "ok"

IsAlnum(c) == IsLower(c) \/ IsUpper(c) \/ IsDigit(c)

\* .replace(/[^a-zA-Z0-9]/g, ' ')
ReplaceNonAlnum(t) == [i \in DOMAIN t |-> IF IsAlnum(t[i]) THEN t[i] ELSE " "]

\* .replace(/\s+/g, '-')
RECURSIVE ReplaceSpaceRuns(_)
ReplaceSpaceRuns(t) ==
    IF t = <<>> THEN <<>>
    ELSE IF Head(t) # " " THEN <<Head(t)>> \o ReplaceSpaceRuns(Tail(t))
    ELSE IF Len(t) >= 2 /\ t[2] = " " THEN ReplaceSpaceRuns(Tail(t))
    ELSE <<"-">> \o ReplaceSpaceRuns(Tail(t))

\* .trim()
RECURSIVE Trim(_)
Trim(t) ==
    IF t = <<>> THEN t
    ELSE IF Head(t) = " " THEN Trim(Tail(t))
    ELSE IF t[Len(t)] = " " THEN Trim(SubSeq(t, 1, Len(t) - 1))
    ELSE t

\* server.js:162-164, without the token
Slug(title) == Trim(ReplaceSpaceRuns(ReplaceNonAlnum(title)))

\* Boolean(draft)
BooleanOf(body, field) == IF field \in DOMAIN body THEN body[field] ELSE FALSE

\* server.js:152-177: destructure, validate, build the document, call save
CreateStart(r, rest) ==
    IF CreateCheck(r.body) # "ok"
    THEN /\ Finish(r, rest, 403, Err(CreateCheck(r.body)))
         /\ UNCHANGED <<users, blogs, clock, tokens, signedUp>>
    ELSE /\ tokens' = tokens + 1
         /\ Await(rest,
                  [route |-> r.route, body |-> r.body, pc |-> "save", known |-> r.known,
                   blog |-> NewBlog(r.body.title, r.body.des, r.body.banner, r.body.content,
                                    [i \in DOMAIN r.body.tags |-> toLowerCase(r.body.tags[i])],
                                    Slug(r.body.title) \o NanoidToken(tokens),
                                    BooleanOf(r.body, "draft"), clock)])
         /\ UNCHANGED <<users, blogs, clock, signedUp>>

\* server.js:135-139
LatestStart(r, rest) ==
    /\ Await(rest, [r EXCEPT !.pc = "find"])
    /\ UNCHANGED <<users, blogs, clock, tokens, signedUp>>

\* server.js:90-92
SignupCheck(body) ==
    IF Len(body.fullname) < FullnameMinLen THEN "Full name too short"
    ELSE IF ~emailRegex(body.email) THEN "Invalid email"
    ELSE IF ~passwordRegex(body.password) THEN "Weak password"
    ELSE "ok"

\* server.js:88-94: destructure, validate, issue findOne
SignupStart(r, rest) ==
    /\ IF SignupCheck(r.body) # "ok"
         THEN Finish(r, rest, 400, Err(SignupCheck(r.body)))
         ELSE Await(rest, [r EXCEPT !.pc = "findOne"])
    /\ UNCHANGED <<users, blogs, clock, tokens, signedUp>>

\* server.js:116-118
SigninStart(r, rest) ==
    /\ Await(rest, [r EXCEPT !.pc = "findOne"])
    /\ UNCHANGED <<users, blogs, clock, tokens, signedUp>>

Start(r, rest) ==
    CASE r.route = "upload" -> UploadStart(r, rest)
      [] r.route = "signup" -> SignupStart(r, rest)
      [] r.route = "signin" -> SigninStart(r, rest)
      [] r.route = "latest" -> LatestStart(r, rest)
      [] r.route = "create" -> CreateStart(r, rest)

\* a request arrives: the handler starts and calls connectToDatabase; with
\* cached.conn set the await returns before any other event is handled.
\* `known` records whether the body's email was registered on arrival (ghost)
Arrive(route, body) ==
    LET r == [route |-> route, body |-> body, pc |-> "awaitConn",
              known |-> route = "signup" /\ UserFindOne(users, body.email) # {}]
    IN  /\ BagCardinality(inflight) < MaxInFlight
        /\ connectToDatabase
        /\ IF cached.conn # "null"
             THEN Start(r, inflight)
             ELSE /\ Await(inflight, r)
                  /\ UNCHANGED <<users, blogs, clock, tokens, signedUp>>

\* the await in connectToDatabase returns: cached.conn = await cached.promise
Connected(r) ==
    /\ r.pc = "awaitConn"
    /\ cached.promise = "resolved"
    /\ cached' = [cached EXCEPT !.conn = "conn"]
    /\ UNCHANGED connects
    /\ Start(r, inflight (-) B(r))

----------------------------------------------------------------------------
(* GET /get-upload-url (server.js:73-82) *)

UploadArrive == Arrive("upload", [none |-> TRUE])

\* s3.getSignedUrlPromise settles
UploadDone(r) ==
    /\ r.route = "upload" /\ r.pc = "sign"
    /\ \/ Finish(r, inflight (-) B(r), 200, [uploadURL |-> "url"])
       \/ Finish(r, inflight (-) B(r), 500, Err(ErrorOf("upload")))
    /\ UNCHANGED <<cached, connects, users, blogs, clock, tokens, signedUp>>

----------------------------------------------------------------------------
(* POST /signup (server.js:85-110) *)

SignupArrive(bodies) == \E b \in bodies : Arrive("signup", b)

\* SignupFindOne going on whatever findOne answers
SignupFindOneUnchecked(r) ==
    /\ r.route = "signup" /\ r.pc = "findOne"
    /\ Await(inflight (-) B(r), [r EXCEPT !.pc = "exists"])
    /\ UNCHANGED <<cached, connects, users, blogs, clock, tokens, signedUp>>

\* server.js:94-98: findOne answers; 409, or hash and call generateUsername
SignupFindOne(r) ==
    /\ r.route = "signup" /\ r.pc = "findOne"
    /\ IF UserFindOne(users, r.body.email) # {}
         THEN Finish(r, inflight (-) B(r), 409, Err("Email already exists"))
         ELSE Await(inflight (-) B(r), [r EXCEPT !.pc = "exists"])
    /\ UNCHANGED <<cached, connects, users, blogs, clock, tokens, signedUp>>

\* server.js:66-68, 98-104: User.exists answers; build the document, call save
SignupGenerateUsername(r) ==
    /\ r.route = "signup" /\ r.pc = "exists"
    /\ \E token \in NanoidPrefixes :
          Await(inflight (-) B(r),
                [route |-> r.route, body |-> r.body, pc |-> "save", known |-> r.known,
                 username |-> generateUsername(r.body.email,
                                  UserExists(users, SplitAtFirst(r.body.email)), token)])
    /\ UNCHANGED <<cached, connects, users, blogs, clock, tokens, signedUp>>

\* server.js:104-108: save answers; 201, or the catch answers 500
SignupSave(r) ==
    /\ r.route = "signup" /\ r.pc = "save"
    /\ \E salt \in Salts, img \in ProfileImgs :
          LET doc == NewUser(r.body.fullname, r.body.email,
                             bcryptHash(r.body.password, salt), r.username, img)
          IN  IF UserSave(users, doc) = "saved"
                THEN /\ users' = users \cup {doc}
                     /\ signedUp' = signedUp \cup
                            {[email |-> r.body.email, password |-> r.body.password,
                              json |-> formatUser(doc)]}
                     /\ Finish(r, inflight (-) B(r), 201, formatUser(doc))
                ELSE /\ UNCHANGED <<users, signedUp>>
                     /\ Finish(r, inflight (-) B(r), 500, Err(ErrorOf("signup")))
    /\ UNCHANGED <<cached, connects, blogs, clock, tokens>>

----------------------------------------------------------------------------
(* POST /signin (server.js:113-129) *)

SigninArrive(bodies) == \E b \in bodies : Arrive("signin", b)

\* SigninFindOne testing the promise of bcrypt.compare instead of its value
SigninFindOneNoAwait(r) ==
    /\ r.route = "signin" /\ r.pc = "findOne"
    /\ LET found == UserFindOne(users, r.body.email)
           rest  == inflight (-) B(r)
       IN  IF found = {}
             THEN Finish(r, rest, 403, Err("Email not found please enter the valid email"))
           ELSE LET user == CHOOSE u \in found : TRUE
                IN  Finish(r, rest, 200, formatUser(user))
    /\ UNCHANGED <<cached, connects, users, blogs, clock, tokens, signedUp>>

\* server.js:118-124: findOne answers, then bcrypt.compare
SigninFindOne(r) ==
    /\ r.route = "signin" /\ r.pc = "findOne"
    /\ LET found == UserFindOne(users, r.body.email)
           rest  == inflight (-) B(r)
       IN  IF found = {}
             THEN Finish(r, rest, 403, Err("Email not found please enter the valid email"))
           ELSE LET user == CHOOSE u \in found : TRUE
                IN  IF "password" \notin DOMAIN r.body
                      THEN Finish(r, rest, 500, Err(ErrorOf("signin")))
                    ELSE IF ~bcryptCompare(r.body.password, user.password)
                      THEN Finish(r, rest, 403, Err("Incorrect password"))
                    ELSE Finish(r, rest, 200, formatUser(user))
    /\ UNCHANGED <<cached, connects, users, blogs, clock, tokens, signedUp>>

----------------------------------------------------------------------------
(* GET /latest-blogs (server.js:132-146) *)

LatestArrive == Arrive("latest", [none |-> TRUE])

LatestLimit == 5

\* .sort({ publishedAt: -1 }): blog i comes before blog j; the order of
\* blogs with equal publishedAt is the store's choice (`tie`)
Before(coll, i, j, tie) ==
    \/ coll[i].publishedAt > coll[j].publishedAt
    \/ /\ coll[i].publishedAt = coll[j].publishedAt
       /\ IF tie THEN i <= j ELSE i >= j

RECURSIVE SortDesc(_, _, _)
SortDesc(coll, idx, tie) ==
    IF idx = {} THEN <<>>
    ELSE LET m == CHOOSE i \in idx : \A j \in idx : Before(coll, i, j, tie)
         IN  <<m>> \o SortDesc(coll, idx \ {m}, tie)

\* .limit(5)
Limit(s, n) == SubSeq(s, 1, IF Len(s) < n THEN Len(s) ELSE n)

\* .populate('author', ...) and .select('blog_id title des tags banner activity publishedAt -_id')
Project(b) ==
    [blog_id |-> b.blog_id, title |-> b.title, des |-> b.des, tags |-> b.tags,
     banner |-> b.banner, activity |-> b.activity, publishedAt |-> b.publishedAt,
     author |-> b.author]

\* LatestQuery without the draft filter
LatestQueryWithDrafts(coll, tie) ==
    LET hits  == DOMAIN coll
        order == Limit(SortDesc(coll, hits, tie), LatestLimit)
    IN  [k \in DOMAIN order |-> Project(coll[order[k]])]

\* Blog.find({ draft: false }) ... .limit(5)
LatestQuery(coll, tie) ==
    LET hits  == {i \in DOMAIN coll : coll[i].draft = FALSE}
        order == Limit(SortDesc(coll, hits, tie), LatestLimit)
    IN  [k \in DOMAIN order |-> Project(coll[order[k]])]

\* server.js:135-141: the query answers
LatestFind(r) ==
    /\ r.route = "latest" /\ r.pc = "find"
    /\ \E tie \in BOOLEAN :
          Finish(r, inflight (-) B(r), 200, [blogs |-> LatestQuery(blogs, tie)])
    /\ UNCHANGED <<cached, connects, users, blogs, clock, tokens, signedUp>>

----------------------------------------------------------------------------
(* POST /create-blog (server.js:149-183) *)

\* the clients send one create-blog request at a time, MaxBlogs in all
CreateArrive(bodies) ==
    /\ \A r \in InFlight : r.route # "create"
    /\ Len(blogs) < MaxBlogs
    /\ \E b \in bodies : Arrive("create", b)

\* server.js:177-181: save answers; 200, or the catch answers 500
CreateSave(r) ==
    /\ r.route = "create" /\ r.pc = "save"
    /\ IF BlogSave(blogs, r.blog) = "saved"
         THEN /\ blogs' = Append(blogs, r.blog)
              /\ Finish(r, inflight (-) B(r), 200, [id |-> r.blog.blog_id])
         ELSE /\ blogs' = blogs
              /\ Finish(r, inflight (-) B(r), 500, Err(ErrorOf("create")))
    /\ UNCHANGED <<cached, connects, users, clock, tokens, signedUp>>

\* time passes
Tick ==
    /\ clock < MaxClock
    /\ clock' = clock + 1
    /\ out' = NoOut
    /\ UNCHANGED <<cached, connects, inflight, users, blogs, tokens, signedUp>>

----------------------------------------------------------------------------
(* Request bodies *)

FullnameOk    == <<"A","n","n"," ","L","e","e">>
FullnameShort == <<"A","l">>
PasswordA     == <<"A","b","c","1","2","3">>
PasswordB     == <<"X","y","z","7","8","9">>
PasswordWeak  == <<"a","b","c","1","2","3">>
EmailBobX     == <<"b","o","b","@","x",".","i","o">>
EmailBobXUp   == <<"B","o","b","@","X",".","i","o">>
EmailBobY     == <<"b","o","b","@","y",".","i","o">>
EmailBobZ     == <<"b","o","b","@","z",".","i","o">>
EmailAl       == <<"a","l","@","x",".","i","o">>
EmailBad      == <<"b","o","b","@","x">>
EmailZed      == <<"z","e","d","@","x",".","i","o">>

Repeat(c, n) == [i \in 1..n |-> c]

Title    == <<"H","i",","," ","T","L","A","+","!">>
Banner   == <<"b",".","j","p","g">>
Tag      == <<"T","l","a">>
Content  == [blocks |-> <<"paragraph">>]

CreateOk == [title |-> Title, des |-> Repeat("d", 1), banner |-> Banner,
             content |-> Content, tags |-> Repeat(Tag, 1), draft |-> TRUE]

CreateNoDraft == [title |-> Title, des |-> Repeat("d", 1), banner |-> Banner,
                  content |-> Content, tags |-> Repeat(Tag, 1)]

CreateValid ==
    { CreateOk,
      [title |-> Title, des |-> Repeat("d", DesMaxLen), banner |-> Banner,
       content |-> Content, tags |-> Repeat(Tag, TagsMaxLen)] }

CreateInvalid ==
    { [CreateOk EXCEPT !.title = <<>>],
      [CreateOk EXCEPT !.des = <<>>],
      [CreateOk EXCEPT !.des = Repeat("d", DesMaxLen + 1)],
      [CreateOk EXCEPT !.banner = <<>>],
      [CreateOk EXCEPT !.content = [blocks |-> <<>>]],
      [CreateOk EXCEPT !.tags = <<>>],
      [CreateOk EXCEPT !.tags = Repeat(Tag, TagsMaxLen + 1)],
      [CreateOk EXCEPT !.title = <<>>, !.tags = Repeat(Tag, TagsMaxLen + 1)],
      [title |-> Title, des |-> Repeat("d", 1), banner |-> Banner, tags |-> Repeat(Tag, 1)] }

CreateBodies == CreateValid \cup CreateInvalid

SignupOk == [fullname |-> FullnameOk, email |-> EmailBobX, password |-> PasswordA]

\* bodies that pass validation and can be stored, for the round trip
SignupValid ==
    { SignupOk,
      [fullname |-> FullnameOk,    email |-> EmailBobXUp, password |-> PasswordA],
      [fullname |-> FullnameOk,    email |-> EmailBobY,   password |-> PasswordB] }

\* three emails with one local part, one with a short local part, and
\* bodies that fail each check
SignupBodies ==
    { SignupOk,
      [fullname |-> FullnameOk,    email |-> EmailBobY,   password |-> PasswordB],
      [fullname |-> FullnameOk,    email |-> EmailAl,     password |-> PasswordA],
      [fullname |-> FullnameShort, email |-> EmailBobX,   password |-> PasswordA],
      [fullname |-> FullnameOk,    email |-> EmailBad,    password |-> PasswordA],
      [fullname |-> FullnameOk,    email |-> EmailBobX,   password |-> PasswordWeak] }

\* three emails with one local part
SignupSameLocal ==
    { SignupOk,
      [fullname |-> FullnameOk,    email |-> EmailBobY,   password |-> PasswordB],
      [fullname |-> FullnameOk,    email |-> EmailBobZ,   password |-> PasswordB] }

SigninOk == [email |-> EmailBobX, password |-> PasswordA]

SigninBodies ==
    { [email |-> EmailBobX,   password |-> PasswordA],
      [email |-> EmailBobXUp, password |-> PasswordA],
      [email |-> EmailBobX,   password |-> PasswordB],
      [email |-> EmailBobY,   password |-> PasswordB],
      [email |-> EmailBobX],
      [email |-> EmailZed,    password |-> PasswordA] }

----------------------------------------------------------------------------
(* Specifications *)

Init ==
    /\ cached = [conn |-> "null", promise |-> "null"]
    /\ connects = 0
    /\ inflight = EmptyBag
    /\ users = {}
    /\ blogs = <<>>
    /\ clock = 0
    /\ tokens = 0
    /\ signedUp = {}
    /\ out = NoOut

\* every route
Next ==
    \/ ConnectResolve
    \/ ConnectReject
    \/ UploadArrive
    \/ SignupArrive({SignupOk})
    \/ SigninArrive({SigninOk})
    \/ LatestArrive
    \/ CreateArrive({CreateNoDraft})
    \/ \E r \in InFlight : Connected(r)
    \/ \E r \in InFlight : ConnectFailed(r)
    \/ \E r \in InFlight : UploadDone(r)
    \/ \E r \in InFlight : SignupFindOne(r)
    \/ \E r \in InFlight : SignupGenerateUsername(r)
    \/ \E r \in InFlight : SignupSave(r)
    \/ \E r \in InFlight : SigninFindOne(r)
    \/ \E r \in InFlight : LatestFind(r)
    \/ \E r \in InFlight : CreateSave(r)

Spec == Init /\ [][Next]_vars

\* POST /signup alone
NextSignup ==
    \/ ConnectResolve
    \/ ConnectReject
    \/ SignupArrive(SignupBodies)
    \/ \E r \in InFlight : Connected(r)
    \/ \E r \in InFlight : ConnectFailed(r)
    \/ \E r \in InFlight : SignupFindOne(r)
    \/ \E r \in InFlight : SignupGenerateUsername(r)
    \/ \E r \in InFlight : SignupSave(r)

SpecSignup == Init /\ [][NextSignup]_vars

\* POST /signup with emails that share their local part
NextUsername ==
    \/ ConnectResolve
    \/ ConnectReject
    \/ SignupArrive(SignupSameLocal)
    \/ \E r \in InFlight : Connected(r)
    \/ \E r \in InFlight : ConnectFailed(r)
    \/ \E r \in InFlight : SignupFindOne(r)
    \/ \E r \in InFlight : SignupGenerateUsername(r)
    \/ \E r \in InFlight : SignupSave(r)

SpecUsername == Init /\ [][NextUsername]_vars

\* POST /signup and POST /signin
NextAuth ==
    \/ ConnectResolve
    \/ ConnectReject
    \/ SignupArrive(SignupValid)
    \/ SigninArrive(SigninBodies)
    \/ \E r \in InFlight : Connected(r)
    \/ \E r \in InFlight : ConnectFailed(r)
    \/ \E r \in InFlight : SignupFindOne(r)
    \/ \E r \in InFlight : SignupGenerateUsername(r)
    \/ \E r \in InFlight : SignupSave(r)
    \/ \E r \in InFlight : SigninFindOne(r)

SpecAuth == Init /\ [][NextAuth]_vars

\* POST /create-blog with every body, valid or not
NextCreate ==
    \/ ConnectResolve
    \/ ConnectReject
    \/ CreateArrive(CreateBodies)
    \/ \E r \in InFlight : Connected(r)
    \/ \E r \in InFlight : ConnectFailed(r)
    \/ \E r \in InFlight : CreateSave(r)

SpecCreate == Init /\ [][NextCreate]_vars

\* POST /create-blog with valid bodies, and GET /latest-blogs
NextLatest ==
    \/ ConnectResolve
    \/ ConnectReject
    \/ Tick
    \/ LatestArrive
    \/ CreateArrive({CreateOk, CreateNoDraft})
    \/ \E r \in InFlight : Connected(r)
    \/ \E r \in InFlight : ConnectFailed(r)
    \/ \E r \in InFlight : LatestFind(r)
    \/ \E r \in InFlight : CreateSave(r)

SpecLatest == Init /\ [][NextLatest]_vars

----------------------------------------------------------------------------
(* Properties *)

ValidSignup(body) ==
    /\ Len(body.fullname) >= 3
    /\ emailRegex(body.email)
    /\ passwordRegex(body.password)

Registered(email) == \E u \in users : u.email = toLowerCase(email)

PublicKeys == {"profile_img", "username", "fullname"}

\* C1: no two stored users share an email, and no two share a username,
\* whatever the interleaving of the signups.
C1_UniqueUsers ==
    \A u, v \in users :
        u # v => u.email # v.email /\ u.username # v.username

\* C1 witness: an insert was refused because a stored user has the username
\* the request computed.
C1_Witness ==
    /\ out.request.route = "signup" /\ out.request.pc = "save"
    /\ out.status = 500
    /\ \E u \in users : u.username = out.request.username

\* C2 as stated: a signup whose email was registered when it arrived is
\* answered 409 with an error field, whatever its other fields.
C2_ConflictWhatever ==
    (out.request.route = "signup" /\ out.request.known)
        => (out.status = 409 /\ "error" \in DOMAIN out.json)

\* C2 amended: a signup whose body passes validation and whose email was
\* registered when it arrived is answered 409 with an error field, and the
\* step that answers it stores no user.
C2_ConflictWhenValid ==
    [][(out'.request.route = "signup" /\ out'.request.known /\ ValidSignup(out'.request.body))
          => (out'.status = 409 /\ DOMAIN out'.json = {"error"} /\ users' = users)]_vars

\* C2 witness: a valid body with a registered email was answered 409.
C2_Witness ==
    /\ out.request.route = "signup" /\ out.request.known
    /\ ValidSignup(out.request.body)
    /\ out.status = 409

\* C3 as stated: a signup whose body passes validation, served with the store
\* connected, is answered 201 with exactly profile_img, username and fullname
\* of the user it stored, unless its email is registered.
C3_ValidIsCreated ==
    (out.request.route = "signup" /\ ValidSignup(out.request.body) /\ cached.conn = "conn")
        => \/ /\ out.status = 201
              /\ DOMAIN out.json = PublicKeys
              /\ \E u \in users : /\ u.email = toLowerCase(out.request.body.email)
                                  /\ formatUser(u) = out.json
           \/ /\ out.status # 201
              /\ Registered(out.request.body.email)

\* C4 as stated: a signup whose insert is refused because a stored user has
\* its email or its username is answered 409.
C4_LateConflictIs409 ==
    (/\ out.request.route = "signup" /\ out.request.pc = "save"
     /\ out.status # 201
     /\ \E u \in users : \/ u.email = toLowerCase(out.request.body.email)
                         \/ u.username = out.request.username)
        => out.status = 409

\* the part of email before its first "@"
IsLocalPart(local, email) ==
    \E k \in DOMAIN email :
        /\ email[k] = "@"
        /\ \A j \in 1..(k - 1) : email[j] # "@"
        /\ local = SubSeq(email, 1, k - 1)

\* r moved from the existence query to save, as r2
GeneratedUsername(r, r2) ==
    /\ r.route = "signup" /\ r.pc = "exists"
    /\ r2.route = "signup" /\ r2.pc = "save" /\ r2.body = r.body
    /\ CopiesIn(r, inflight') < CopiesIn(r, inflight)
    /\ CopiesIn(r2, inflight') > CopiesIn(r2, inflight)

\* C5: the username a signup goes on to save is the part of its email before
\* the first "@" when no stored user has that username, and that part
\* followed by exactly 5 characters when one has; the step makes no change
\* to the directory and the request moves on to save at once.
C5_GenerateUsername ==
    [][\A r \in InFlight : \A r2 \in BagToSet(inflight') :
          GeneratedUsername(r, r2) =>
              \E local \in {SubSeq(r.body.email, 1, k) : k \in 0..Len(r.body.email)} :
                  /\ IsLocalPart(local, r.body.email)
                  /\ IF \E u \in users : u.username = local
                       THEN /\ Len(r2.username) = Len(local) + 5
                            /\ SubSeq(r2.username, 1, Len(local)) = local
                       ELSE r2.username = local
                  /\ users' = users
                  /\ inflight' = (inflight (-) B(r)) (+) B(r2)]_vars

\* C5 witness: a request is about to save a suffixed username that a stored
\* user already has.
C5_Witness ==
    \E r \in InFlight :
        /\ r.route = "signup" /\ r.pc = "save"
        /\ Len(r.username) = Len(SplitAtFirst(r.body.email)) + 5
        /\ \E u \in users : u.username = r.username

Stored(id) == {i \in DOMAIN blogs : blogs[i].blog_id = id}

NonDrafts == {i \in DOMAIN blogs : blogs[i].draft = FALSE}

\* C6: the list GET /latest-blogs answers holds no draft, at most 5 blogs,
\* in descending publishedAt, no blog twice, and the most recent non-draft
\* blogs: every non-draft blog left out is no newer than any blog listed,
\* and none is left out while the list has room.
C6_LatestBlogs ==
    (out.request.route = "latest" /\ out.status = 200) =>
        LET list == out.json.blogs
            ids  == {list[k].blog_id : k \in DOMAIN list}
        IN  /\ Len(list) <= 5
            /\ \A k \in DOMAIN list :
                  \E i \in NonDrafts : /\ blogs[i].blog_id = list[k].blog_id
                                       /\ blogs[i].publishedAt = list[k].publishedAt
            /\ \A k, l \in DOMAIN list :
                  k < l => /\ list[k].publishedAt >= list[l].publishedAt
                           /\ list[k].blog_id # list[l].blog_id
            /\ \A i \in NonDrafts :
                  blogs[i].blog_id \notin ids =>
                      /\ Len(list) = 5
                      /\ \A k \in DOMAIN list : blogs[i].publishedAt <= list[k].publishedAt

\* C6 witness: 5 blogs are listed while a draft and more than 5 non-draft
\* blogs are stored, published at different times.
C6_Witness ==
    /\ out.request.route = "latest" /\ out.status = 200
    /\ Len(out.json.blogs) = 5
    /\ Cardinality(NonDrafts) > 5
    /\ \E i \in DOMAIN blogs : blogs[i].draft
    /\ out.json.blogs[1].publishedAt > out.json.blogs[5].publishedAt

AcceptableBlog(body) ==
    /\ "title" \in DOMAIN body /\ Len(body.title) >= 1
    /\ "des" \in DOMAIN body /\ Len(body.des) >= 1 /\ Len(body.des) <= 200
    /\ "banner" \in DOMAIN body /\ Len(body.banner) >= 1
    /\ "content" \in DOMAIN body /\ Len(body.content.blocks) >= 1
    /\ "tags" \in DOMAIN body /\ Len(body.tags) >= 1 /\ Len(body.tags) <= 10

FirstBlogError(body) ==
    IF ~("title" \in DOMAIN body /\ Len(body.title) >= 1) THEN "Title required"
    ELSE IF ~("des" \in DOMAIN body /\ Len(body.des) >= 1 /\ Len(body.des) <= 200)
        THEN "Description max 200 chars"
    ELSE IF ~("banner" \in DOMAIN body /\ Len(body.banner) >= 1) THEN "Banner required"
    ELSE IF ~("content" \in DOMAIN body /\ Len(body.content.blocks) >= 1)
        THEN "Content required"
    ELSE "Tags required (max 10)"

\* C7: served with the store connected, POST /create-blog appends one blog
\* and answers 200 with its blog_id exactly when the title is non-empty, des
\* has 1 to 200 characters, the banner is non-empty, the content has a block
\* and there are 1 to 10 tags; otherwise it answers 403 with the error of the
\* first failing check and the blogs are unchanged.  Nothing else writes a
\* blog.
C7_CreateBlog ==
    [][/\ (out'.request.route = "create" /\ cached'.conn = "conn") =>
              IF AcceptableBlog(out'.request.body)
                THEN /\ out'.status = 200
                     /\ Len(blogs') = Len(blogs) + 1
                     /\ SubSeq(blogs', 1, Len(blogs)) = blogs
                     /\ blogs'[Len(blogs')].blog_id = out'.json.id
                     /\ blogs'[Len(blogs')].title = out'.request.body.title
                ELSE /\ out'.status = 403
                     /\ out'.json = [error |-> FirstBlogError(out'.request.body)]
                     /\ blogs' = blogs
       /\ blogs' # blogs => (out'.request.route = "create" /\ out'.status = 200)]_vars

\* C7 witness: a body with 200 characters of des and 10 tags was answered
\* 200 and is stored.
C7_Witness ==
    /\ out.request.route = "create" /\ out.status = 200
    /\ Len(out.request.body.des) = 200 /\ Len(out.request.body.tags) = 10
    /\ Stored(out.json.id) # {}

\* the signups answered 201 with this email, as the directory compares it
SignedUpAs(email) == {s \in signedUp : toLowerCase(s.email) = toLowerCase(email)}

SigninAnswer ==
    (out.request.route = "signin" /\ "password" \in DOMAIN out.request.body /\ signedUp # {}) =>
        IF SignedUpAs(out.request.body.email) = {}
          THEN out.status = 403
          ELSE \A s \in SignedUpAs(out.request.body.email) :
                  IF s.password = out.request.body.password
                    THEN out.status = 200 /\ out.json = s.json
                    ELSE out.status = 403

\* C8: once a signup has been answered 201, a signin with its email and its
\* password is answered 200 with what that signup answered, a signin with
\* its email and another password 403, and a signin with an email that no
\* signup registered 403 (emails compared as the directory stores them, in
\* lower case); a signin leaves the users unchanged.
C8_SignupThenSignin ==
    [][/\ SigninAnswer'
       /\ out'.request.route = "signin" => users' = users]_vars

\* C8 witness: a signin was answered 200 with what the signup of the same
\* email and password answered.
C8_Witness ==
    /\ out.request.route = "signin" /\ out.status = 200
    /\ \E s \in signedUp : /\ s.email = out.request.body.email
                           /\ s.password = out.request.body.password
                           /\ s.json = out.json

\* C9: mongoose.connect is called at most once; cached.promise is set from
\* that call on, and cached.conn is set only once the connect has succeeded.
C9_ConnectOnce ==
    /\ connects <= 1
    /\ (connects = 0) = (cached.promise = "null")
    /\ cached.conn = "conn" => cached.promise = "resolved"

\* C9 witness: two requests wait on the one pending connect.
C9_Witness ==
    /\ connects = 1 /\ cached.promise = "pending"
    /\ \E r1, r2 \in InFlight :
          /\ r1.pc = "awaitConn" /\ r2.pc = "awaitConn"
          /\ r1.route # r2.route

\* C10: once the connect has failed, cached keeps the rejected promise and a
\* null conn, no connect is started again, and every answer is a 500.
C10_FailedForGood ==
    [][cached.promise = "rejected" =>
          /\ cached' = cached
          /\ cached.conn = "null"
          /\ connects' = connects
          /\ out' # NoOut => out'.status = 500]_vars

\* C10 witness: after the failure GET /get-upload-url was answered 500 and
\* another request has been taken in.
C10_Witness ==
    /\ cached.promise = "rejected"
    /\ out.request.route = "upload" /\ out.status = 500
    /\ inflight # EmptyBag

====
